---- MODULE Spec2Model ----
(***************************************************************************)
(* ConvertJSON of src/time.py: the regex lexer, nestLevel (token stream to *)
(* nested lists), convert (nested lists to dictionaries), find and findAll.*)
(* Text is a sequence of one-character strings, so that the lexer, the     *)
(* splits and int()/bool() are computed on characters as the code does.    *)
(***************************************************************************)
EXTENDS Integers, Sequences, FiniteSets

VARIABLES
  line,     \* the line readline() gave, as the sequence of its pieces
  keyData,  \* nestLevel's nonlocal keyData: the text not yet scanned
  stack,    \* currentList of each running nestLevel call, outermost first
  pc,       \* "scan", "convert", "returned" or "raised"
  result,   \* the dictionary decode returned, as its entries in order
  error,    \* the exception decode raised
  call,     \* the last call of find or findAll on result
  prev      \* the line and outcome of the decode before this one

vars == <<line, keyData, stack, pc, result, error, call, prev>>

(* ------------------------------ bounds --------------------------------- *)

\* Tokens of the line before its trailing closing markers.
MaxPieces == 5
\* Closing markers that may follow them.
MaxClose == 2

(* ------------------------------ values --------------------------------- *)

IntNode(n) == [t |-> "int", v |-> n]
StrNode(s) == [t |-> "str", v |-> s]
BoolNode(b) == [t |-> "bool", v |-> b]
ListNode(l) == [t |-> "list", v |-> l]
DictNode(d) == [t |-> "dict", v |-> d]
None == [t |-> "none", v |-> 0]

\* Python's == on the values that occur as keys (True == 1, False == 0).
PyEq(a, b) ==
  LET num(x) == IF x.t = "bool" THEN (IF x.v THEN 1 ELSE 0) ELSE x.v
  IN  IF a.t \in {"int", "bool"} /\ b.t \in {"int", "bool"} THEN num(a) = num(b)
      ELSE IF a.t = "str" /\ b.t = "str" THEN a.v = b.v
      ELSE FALSE

\* Python's truth value: `if res:`.
PyTruthy(x) ==
  CASE x.t = "none" -> FALSE
    [] x.t = "int"  -> x.v # 0
    [] x.t = "bool" -> x.v
    [] OTHER        -> Len(x.v) > 0

\* bool(value) of a str: true unless the string is empty.
PyBool(s) == Len(s) > 0

Digits == {"0", "1", "2", "3", "4", "5", "6", "7", "8", "9"}

DigitVal(c) ==
  CASE c = "0" -> 0 [] c = "1" -> 1 [] c = "2" -> 2 [] c = "3" -> 3
    [] c = "4" -> 4 [] c = "5" -> 5 [] c = "6" -> 6 [] c = "7" -> 7
    [] c = "8" -> 8 [] c = "9" -> 9

RECURSIVE PyInt(_)
\* int(value) of a string of decimal digits.
PyInt(s) ==
  IF Len(s) = 0 THEN 0
  ELSE 10 * PyInt(SubSeq(s, 1, Len(s) - 1)) + DigitVal(s[Len(s)])

(* ------------------------------- lexer --------------------------------- *)

At(s, i) == IF i >= 1 /\ i <= Len(s) THEN s[i] ELSE ""

RECURSIVE DigitRun(_, _)
\* Length of the longest run of digits of s from position i: [0-9]+ (0: none).
DigitRun(s, i) == IF At(s, i) \in Digits THEN 1 + DigitRun(s, i + 1) ELSE 0

RECURSIVE NonQuoteRun(_, _)
\* Length of the longest run of non-quote characters from position i: [^"]*.
NonQuoteRun(s, i) ==
  IF i <= Len(s) /\ s[i] # "\"" THEN 1 + NonQuoteRun(s, i + 1) ELSE 0

\* ;? after a token that ends at position e.
Semi(s, e) == IF At(s, e + 1) = ";" THEN e + 1 ELSE e

\* ^i:[0-9]+;?   (each Match gives the end of the match, 0 for no match)
MatchInteger(s) ==
  LET d == DigitRun(s, 3)
  IN  IF At(s, 1) = "i" /\ At(s, 2) = ":" /\ d > 0 THEN Semi(s, 2 + d) ELSE 0

\* ^s:[0-9]+:"[^"]*";?
MatchString(s) ==
  LET d == DigitRun(s, 3)
      q == NonQuoteRun(s, 5 + d)
  IN  IF /\ At(s, 1) = "s" /\ At(s, 2) = ":" /\ d > 0
         /\ At(s, 3 + d) = ":" /\ At(s, 4 + d) = "\""
         /\ At(s, 5 + d + q) = "\""
      THEN Semi(s, 5 + d + q) ELSE 0

\* A lexer whose array tag takes a one-digit count only: ^a:[0-9]:{
MatchArrayOneDigit(s) ==
  IF /\ At(s, 1) = "a" /\ At(s, 2) = ":" /\ At(s, 3) \in Digits
     /\ At(s, 4) = ":" /\ At(s, 5) = "{"
  THEN 5 ELSE 0

\* ^a:[0-9]+:{
MatchArray(s) ==
  LET d == DigitRun(s, 3)
  IN  IF /\ At(s, 1) = "a" /\ At(s, 2) = ":" /\ d > 0
         /\ At(s, 3 + d) = ":" /\ At(s, 4 + d) = "{"
      THEN 4 + d ELSE 0

\* ^}
MatchEndArr(s) == IF At(s, 1) = "}" THEN 1 ELSE 0

\* ^b:[01];?
MatchBoolean(s) ==
  IF At(s, 1) = "b" /\ At(s, 2) = ":" /\ At(s, 3) \in {"0", "1"}
  THEN Semi(s, 3) ELSE 0

\* re.search(self.lexer, keyData): the first alternative that matches.
Lexer(s) ==
  LET integer == MatchInteger(s)
      string  == MatchString(s)
      array   == MatchArray(s)
      endArr  == MatchEndArr(s)
  IN  IF integer > 0 THEN integer
      ELSE IF string > 0 THEN string
      ELSE IF array > 0 THEN array
      ELSE IF endArr > 0 THEN endArr
      ELSE MatchBoolean(s)

\* substring = keyData[:end], without a trailing `;'.
Substring(s) ==
  LET sub == SubSeq(s, 1, Lexer(s))
  IN  IF Len(sub) > 0 /\ sub[Len(sub)] = ";" THEN SubSeq(sub, 1, Len(sub) - 1)
      ELSE sub

\* keyData = keyData[end:]
Rest(s) == SubSeq(s, Lexer(s) + 1, Len(s))

\* substring.split(':') of an integer or boolean token: the part after the colon.
SplitValue(sub) == SubSeq(sub, 3, Len(sub))

\* re.split(colonStringSplit, substring): a colon after `s' or before a quote.
SplitPoints(sub) ==
  {p \in 1..Len(sub) :
     sub[p] = ":" /\ (At(sub, p - 1) = "s" \/ At(sub, p + 1) = "\"")}

\* The last of the three parts, without its first and last character.
StringValue(sub) ==
  LET last == CHOOSE p \in SplitPoints(sub) : \A r \in SplitPoints(sub) : r <= p
      part == SubSeq(sub, last + 1, Len(sub))
  IN  SubSeq(part, 2, Len(part) - 1)

(* --------------------------- the input lines --------------------------- *)

Counts == {<<"1">>, <<"2", "0">>}

ArrayOpen(c) == <<"a", ":">> \o c \o <<":", "{">>

ArrayClose == <<"}">>

\* The pieces a line is made of: one token of each grammar (the integers 1
\* and 0, a boolean without its optional `;') and a character no grammar has.
Lexicon ==
  { ArrayOpen(<<"1">>),
    ArrayClose,
    <<"i", ":", "1", ";">>,
    <<"i", ":", "0", ";">>,
    <<"s", ":", "1", ":", "\"", "k", "\"", ";">>,
    <<"b", ":", "0">>,
    <<"x">> }

RECURSIVE Concat(_)
Concat(ps) == IF Len(ps) = 0 THEN <<>> ELSE Head(ps) \o Concat(Tail(ps))

\* Lines of at most MaxPieces pieces followed by at most MaxClose closing
\* markers: balanced, unclosed, over-closed and malformed ones.
Lines ==
  { body \o [i \in 1..c |-> ArrayClose] :
      body \in UNION {[1..n -> Lexicon] : n \in 0..MaxPieces}, c \in 0..MaxClose }

NoCall == [op |-> "none", key |-> None, found |-> None, occurrences |-> <<>>]

NoPrev == [set |-> FALSE, line |-> <<>>, pc |-> "", result |-> <<>>, error |-> ""]

Init ==
  /\ line \in Lines
  /\ keyData = Concat(line)
  /\ stack = <<<<>>>>
  /\ pc = "scan"
  /\ result = <<>>
  /\ error = ""
  /\ call = NoCall
  /\ prev = NoPrev

(* ------------------------------ nestLevel ------------------------------ *)

Top == stack[Len(stack)]

\* currentList.append(x) in the innermost call.
AppendTop(x) == [stack EXCEPT ![Len(stack)] = Append(@, x)]

\* `return currentList': to the calling nestLevel, which appends the list, or
\* out of the outermost call.
Return ==
  IF Len(stack) > 1
  THEN /\ stack' = [SubSeq(stack, 1, Len(stack) - 1)
                      EXCEPT ![Len(stack) - 1] = Append(@, ListNode(Top))]
       /\ pc' = "scan"
  ELSE /\ pc' = "convert"
       /\ UNCHANGED stack

\* An exception leaves decode: no dictionary is returned. The lists built so
\* far are kept in the model as they were when it was raised.
Raise(e) ==
  /\ pc' = "raised"
  /\ error' = e
  /\ result' = <<>>
  /\ UNCHANGED stack

Scanning == pc = "scan" /\ Len(keyData) > 0 /\ Lexer(keyData) > 0

\* A scanner that skips the character it cannot match and goes on.
ScanFailSkips ==
  /\ pc = "scan" /\ Len(keyData) > 0 /\ Lexer(keyData) = 0
  /\ keyData' = Tail(keyData)
  /\ UNCHANGED <<line, stack, pc, result, error, call, prev>>

ScanFail ==
  /\ pc = "scan" /\ Len(keyData) > 0 /\ Lexer(keyData) = 0
  /\ Raise("InvalidArrayFormat")
  /\ UNCHANGED <<line, keyData, call, prev>>

ScanArray ==
  /\ Scanning /\ Substring(keyData)[1] = "a"
  /\ keyData' = Rest(keyData)
  /\ stack' = Append(stack, <<>>)
  /\ UNCHANGED <<line, pc, result, error, call, prev>>

ScanInteger ==
  /\ Scanning /\ Substring(keyData)[1] = "i"
  /\ keyData' = Rest(keyData)
  /\ stack' = AppendTop(IntNode(PyInt(SplitValue(Substring(keyData)))))
  /\ UNCHANGED <<line, pc, result, error, call, prev>>

ScanString ==
  /\ Scanning /\ Substring(keyData)[1] = "s"
  /\ keyData' = Rest(keyData)
  /\ IF Cardinality(SplitPoints(Substring(keyData))) = 2
     THEN /\ stack' = AppendTop(StrNode(StringValue(Substring(keyData))))
          /\ UNCHANGED <<pc, result, error>>
     ELSE Raise("ValueError")   \* `_, _, value =' does not unpack
  /\ UNCHANGED <<line, call, prev>>

ScanBoolean ==
  /\ Scanning /\ Substring(keyData)[1] = "b"
  /\ keyData' = Rest(keyData)
  /\ stack' = AppendTop(BoolNode(PyBool(SplitValue(Substring(keyData)))))
  /\ UNCHANGED <<line, pc, result, error, call, prev>>

ScanEndArr ==
  /\ Scanning /\ Substring(keyData)[1] = "}"
  /\ keyData' = Rest(keyData)
  /\ Return
  /\ UNCHANGED <<line, result, error, call, prev>>

\* `while keyData' ends: the call returns its list.
EndOfInput ==
  /\ pc = "scan" /\ Len(keyData) = 0
  /\ Return
  /\ UNCHANGED <<line, keyData, result, error, call, prev>>

(* ------------------------------- convert ------------------------------- *)

\* A dict in which the first value stored under a key stays.
DictSetFirstWins(d, key, val) ==
  IF \E i \in 1..Len(d) : PyEq(d[i].k, key) THEN d
  ELSE Append(d, [k |-> key, val |-> val])

\* currentDict[key] = val: a dict keeps insertion order and, for an equal key,
\* the key it already holds.
DictSet(d, key, val) ==
  IF \E i \in 1..Len(d) : PyEq(d[i].k, key)
  THEN LET i == CHOOSE j \in 1..Len(d) : PyEq(d[j].k, key)
       IN  [d EXCEPT ![i].val = val]
  ELSE Append(d, [k |-> key, val |-> val])

RECURSIVE convert(_)
RECURSIVE ConvertLoop(_, _, _)
RECURSIVE ConvertLoopOverlap(_, _, _)
\* The loop with pairs (0,1), (1,2), ...: ranges of step 1.
ConvertLoopOverlap(arr, n, currentDict) ==
  IF n + 1 > Len(arr) THEN [ok |-> TRUE, d |-> currentDict]
  ELSE LET key == arr[n]
           val == arr[n + 1]
           sub == IF val.t = "list" THEN convert(val.v) ELSE [ok |-> TRUE, d |-> <<>>]
           new == IF val.t = "list" THEN DictNode(sub.d) ELSE val
       IN  IF ~sub.ok \/ key.t = "list" THEN [ok |-> FALSE, d |-> <<>>]
           ELSE ConvertLoopOverlap(arr, n + 1, DictSet(currentDict, key, new))

\* The loop over zip(range(0, length - 1, 2), range(1, length, 2)); n is the
\* number of the pair. ok is FALSE for a TypeError (a list is unhashable).
ConvertLoop(arr, n, currentDict) ==
  IF 2 * n > Len(arr) THEN [ok |-> TRUE, d |-> currentDict]
  ELSE LET key == arr[2 * n - 1]
           val == arr[2 * n]
           sub == IF val.t = "list" THEN convert(val.v) ELSE [ok |-> TRUE, d |-> <<>>]
           new == IF val.t = "list" THEN DictNode(sub.d) ELSE val
       IN  IF ~sub.ok \/ key.t = "list" THEN [ok |-> FALSE, d |-> <<>>]
           ELSE ConvertLoop(arr, n + 1, DictSet(currentDict, key, new))

convert(multiLevelArray) == ConvertLoop(multiLevelArray, 1, <<>>)

\* return convert(nestLevel()[0])
Convert ==
  /\ pc = "convert"
  /\ LET top == stack[1]
     IN  IF Len(top) = 0 THEN Raise("IndexError")
         ELSE IF top[1].t \in {"int", "bool"} THEN Raise("TypeError")
         ELSE LET arr == IF top[1].t = "list" THEN top[1].v
                         ELSE [i \in 1..Len(top[1].v) |-> StrNode(<<top[1].v[i]>>)]
                  res == convert(arr)
              IN  IF res.ok
                  THEN /\ pc' = "returned"
                       /\ result' = res.d
                       /\ UNCHANGED <<stack, error>>
                  ELSE Raise("TypeError")
  /\ UNCHANGED <<line, keyData, call, prev>>

(* ---------------------------- find, findAll ---------------------------- *)

Keys == {IntNode(1), StrNode(<<"k">>)}

RECURSIVE FindTraverse(_, _, _)
\* find's traverse: the loop over nested.items() from entry i on.
FindTraverse(key, nested, i) ==
  IF i > Len(nested) THEN None
  ELSE IF PyEq(nested[i].k, key) THEN nested[i].val
  ELSE IF nested[i].val.t = "dict"
       THEN LET res == FindTraverse(key, nested[i].val.v, 1)
            IN  IF PyTruthy(res) THEN res ELSE FindTraverse(key, nested, i + 1)
       ELSE FindTraverse(key, nested, i + 1)

find(key, nestedDicts) == FindTraverse(key, nestedDicts, 1)

RECURSIVE FindAllTraverse(_, _, _)
RECURSIVE FindAllTraverseElif(_, _, _)
\* A traverse that does not descend into the value of an entry that matched.
FindAllTraverseElif(key, nested, i) ==
  IF i > Len(nested) THEN <<>>
  ELSE (IF PyEq(nested[i].k, key) THEN <<nested[i].val>>
        ELSE IF nested[i].val.t = "dict"
             THEN FindAllTraverse(key, nested[i].val.v, 1) ELSE <<>>)
       \o FindAllTraverse(key, nested, i + 1)

\* findAll's traverse: what it appends to occurrences from entry i on.
FindAllTraverse(key, nested, i) ==
  IF i > Len(nested) THEN <<>>
  ELSE (IF PyEq(nested[i].k, key) THEN <<nested[i].val>> ELSE <<>>)
       \o (IF nested[i].val.t = "dict"
           THEN FindAllTraverse(key, nested[i].val.v, 1) ELSE <<>>)
       \o FindAllTraverse(key, nested, i + 1)

findAll(key, nestedDicts) == FindAllTraverse(key, nestedDicts, 1)

Find(key) ==
  /\ pc = "returned"
  /\ call' = [op |-> "find", key |-> key, found |-> find(key, result),
              occurrences |-> <<>>]
  /\ UNCHANGED <<line, keyData, stack, pc, result, error, prev>>

FindAll(key) ==
  /\ pc = "returned"
  /\ call' = [op |-> "findAll", key |-> key, found |-> None,
              occurrences |-> findAll(key, result)]
  /\ UNCHANGED <<line, keyData, stack, pc, result, error, prev>>

(* ---------------------------- specification ---------------------------- *)

Next ==
  \/ ScanFail
  \/ ScanArray
  \/ ScanInteger
  \/ ScanString
  \/ ScanBoolean
  \/ ScanEndArr
  \/ EndOfInput
  \/ Convert
  \/ \E key \in Keys : Find(key)
  \/ \E key \in Keys : FindAll(key)

Spec == Init /\ [][Next]_vars

(* ------------------- decode called on a second line -------------------- *)

IsArrayOpen(piece) == \E c \in Counts : piece = ArrayOpen(c)

OpenIndexes(l) == {i \in 1..Len(l) : IsArrayOpen(l[i])}

\* main's loop calls decode once per agent: here the next line read is the
\* line just decoded with other declared counts in its array tags.
DecodeVariant ==
  /\ pc \in {"returned", "raised"}
  /\ ~prev.set
  /\ \E f \in [OpenIndexes(line) -> Counts] :
       /\ line' = [i \in 1..Len(line) |->
                     IF i \in OpenIndexes(line) THEN ArrayOpen(f[i]) ELSE line[i]]
       /\ line' # line
  /\ prev' = [set |-> TRUE, line |-> line, pc |-> pc, result |-> result,
              error |-> error]
  /\ keyData' = Concat(line')
  /\ stack' = <<<<>>>>
  /\ pc' = "scan"
  /\ result' = <<>>
  /\ error' = ""
  /\ call' = NoCall

NextVariant ==
  \/ ScanFail
  \/ ScanArray
  \/ ScanInteger
  \/ ScanString
  \/ ScanBoolean
  \/ ScanEndArr
  \/ EndOfInput
  \/ Convert
  \/ DecodeVariant

\* The lines that start with an array tag, as a serialized array does.
InitVariant ==
  /\ Init
  /\ Len(line) > 0 /\ IsArrayOpen(line[1])

SpecVariant == InitVariant /\ [][NextVariant]_vars

(* ------------------------------ properties ----------------------------- *)

Finished == pc \in {"returned", "raised"}

\* C1: a boolean token is stored as false when its digit is 0 and as true
\* when its digit is 1.
C1_BooleanDecodesDigit ==
  [][(Scanning /\ keyData[1] = "b")
       => stack'[Len(stack')] = Append(Top, BoolNode(keyData[3] = "1"))]_vars

\* C2: when the buffer is exhausted while an array is still open, decode
\* fails with UnexpectedEndOfInput.
C2_UnexpectedEndOfInput ==
  [][(pc = "scan" /\ Len(keyData) = 0 /\ Len(stack) > 1)
       => (pc' = "raised" /\ error' = "UnexpectedEndOfInput")]_vars

\* C3: find(k, r) is nothing exactly when findAll(k, r) is empty, and is
\* otherwise the first element of findAll(k, r).
C3_FindAgreesWithFindAll ==
  call.op = "find" =>
    LET all == findAll(call.key, result)
    IN  /\ (call.found = None) <=> (Len(all) = 0)
        /\ Len(all) > 0 => call.found = all[1]

\* C4: when the list nestLevel returns has no element or more than one,
\* decode fails with MalformedToken (InvalidArrayFormat) and returns no Record.
C4_UnwrapExactlyOne ==
  [][(pc = "convert" /\ Len(stack[1]) # 1)
       => (pc' = "raised" /\ error' = "InvalidArrayFormat")]_vars

IsToken(piece) == Len(piece) > 0 /\ Lexer(piece) = Len(piece)

IsLeaf(piece) == piece[1] \in {"i", "s", "b"}

RECURSIVE DepthAfter(_, _)
\* Arrays open after the first i tokens of l.
DepthAfter(l, i) ==
  IF i = 0 THEN 0
  ELSE DepthAfter(l, i - 1)
       + (IF IsArrayOpen(l[i]) THEN 1 ELSE IF l[i] = ArrayClose THEN -1 ELSE 0)

\* A syntactically valid line: tokens only, one root array, every array
\* closed, the root array closed by the last token.
Valid(l) ==
  /\ Len(l) > 0
  /\ \A i \in 1..Len(l) : IsToken(l[i])
  /\ IsArrayOpen(l[1])
  /\ \A i \in 1..(Len(l) - 1) : DepthAfter(l, i) > 0
  /\ DepthAfter(l, Len(l)) = 0

LeafTokens(l) == Cardinality({i \in 1..Len(l) : IsLeaf(l[i])})

NestedOpens(l) == Cardinality(OpenIndexes(l)) - 1

RECURSIVE EntryCount(_)
\* Entries of a dictionary, those of its nested dictionaries included.
EntryCount(d) ==
  IF Len(d) = 0 THEN 0
  ELSE 1 + (IF Head(d).val.t = "dict" THEN EntryCount(Head(d).val.v) ELSE 0)
         + EntryCount(Tail(d))

ConvertedList ==
  /\ pc = "returned" \/ (pc = "raised" /\ error \in {"TypeError", "IndexError"})
  /\ Len(stack[1]) > 0
  /\ stack[1][1].t = "list"

Pairs(arr) == 1..(Len(arr) \div 2)

RECURSIVE KeysHashable(_)
\* No pair of arr, nor of a list that is a pair's value, has a list as key.
KeysHashable(arr) ==
  \A n \in Pairs(arr) :
    /\ arr[2 * n - 1].t # "list"
    /\ arr[2 * n].t = "list" => KeysHashable(arr[2 * n].v)

RECURSIVE IsPairing(_, _)
\* d holds exactly the pairs of arr: every pair's key is a key of d, no key
\* twice, and each entry has the value of the last pair with its key, a list
\* value replaced by the dictionary of its own pairs.
IsPairing(arr, d) ==
  /\ \A n \in Pairs(arr) : \E i \in 1..Len(d) : PyEq(d[i].k, arr[2 * n - 1])
  /\ \A i, j \in 1..Len(d) : i # j => ~PyEq(d[i].k, d[j].k)
  /\ \A i \in 1..Len(d) :
       \E n \in Pairs(arr) :
         /\ PyEq(arr[2 * n - 1], d[i].k)
         /\ \A m \in Pairs(arr) : m > n => ~PyEq(arr[2 * m - 1], d[i].k)
         /\ IF arr[2 * n].t = "list"
            THEN d[i].val.t = "dict" /\ IsPairing(arr[2 * n].v, d[i].val.v)
            ELSE d[i].val = arr[2 * n]

\* C6 as stated: for every list, convert produces the Record of its pairs.
C6_Original ==
  ConvertedList => (pc = "returned" /\ IsPairing(stack[1][1].v, result))

\* C6, amended: for every list with no list at a key position, convert
\* produces the Record of its pairs (odd last element dropped, list values
\* converted, last pair of a key wins); with a list at a key position it
\* raises TypeError.
C6_ConvertPairs ==
  ConvertedList =>
    IF KeysHashable(stack[1][1].v)
    THEN pc = "returned" /\ IsPairing(stack[1][1].v, result)
    ELSE pc = "raised" /\ error = "TypeError"

C6_Witness ==
  /\ ConvertedList /\ pc = "returned"
  /\ LET arr == stack[1][1].v
     IN  /\ Len(arr) >= 4
         /\ PyEq(arr[1], arr[3])
         /\ arr[2] # arr[4]
         /\ arr[4].t = "list"
         /\ Len(result) = 1

NoTokenMatches(s) ==
  /\ MatchInteger(s) = 0 /\ MatchString(s) = 0 /\ MatchArray(s) = 0
  /\ MatchEndArr(s) = 0 /\ MatchBoolean(s) = 0

\* C7: when no token grammar matches at the front of a non-empty buffer, at
\* any depth, decode raises InvalidArrayFormat and returns no Record, and
\* nothing follows the failure.
C7_MalformedTokenFails ==
  [][/\ (pc = "scan" /\ Len(keyData) > 0 /\ NoTokenMatches(keyData))
          => (pc' = "raised" /\ error' = "InvalidArrayFormat" /\ result' = <<>>)
     /\ pc = "raised" => (pc' = "raised" /\ result' = <<>> /\ error' = error)]_vars

C7_Witness ==
  /\ pc = "raised" /\ error = "InvalidArrayFormat"
  /\ Len(stack) > 2
  /\ Len(stack[2]) > 0
  /\ Len(keyData) > 1

RECURSIVE PreOrder(_)
\* The entries of d at any depth, each before the entries of its value.
PreOrder(d) ==
  IF Len(d) = 0 THEN <<>>
  ELSE <<Head(d)>>
       \o (IF Head(d).val.t = "dict" THEN PreOrder(Head(d).val.v) ELSE <<>>)
       \o PreOrder(Tail(d))

RECURSIVE ValuesOf(_, _)
\* The values of the entries of es whose key equals key, in order.
ValuesOf(key, es) ==
  IF Len(es) = 0 THEN <<>>
  ELSE (IF PyEq(Head(es).k, key) THEN <<Head(es).val>> ELSE <<>>)
       \o ValuesOf(key, Tail(es))

\* C8: findAll returns the values of all entries at any depth whose key
\* equals the key, in depth-first pre-order, entries under a matching entry
\* included, and leaves the Record unchanged.
C8_FindAllPreOrder ==
  [][(call' # call /\ call'.op = "findAll")
       => /\ call'.occurrences = ValuesOf(call'.key, PreOrder(result))
          /\ result' = result]_vars

C8_Witness ==
  /\ call.op = "findAll"
  /\ Len(call.occurrences) >= 2
  /\ call.occurrences[1].t = "dict"
  /\ Len(result) = 1

\* Two lines that differ at most in the declared counts of their array tags.
SameButCounts(l1, l2) ==
  /\ Len(l1) = Len(l2)
  /\ \A i \in 1..Len(l1) : l1[i] = l2[i] \/ (IsArrayOpen(l1[i]) /\ IsArrayOpen(l2[i]))

C10_WholeLineScanned == pc = "returned" => Len(keyData) = 0

====
